---------------------------- MODULE Spec2Model ----------------------------
(***************************************************************************)
(* A model of the chrF crate (src/src/lib.rs): the ladder of n-gram        *)
(* counters N1..N12, its feeding and clearing, and the chrF scorer.        *)
(*                                                                         *)
(* A ladder of maximum order W is a sequence of W counters; counter k is   *)
(* the HashMap<[G; k], u32> of the node of width k (a function from the    *)
(* keys present to their counts).  The node N0 that ends the chain holds   *)
(* nothing and is the base case of every recursion.                        *)
(***************************************************************************)
EXTENDS Integers, Sequences, FiniteSets, TLC

(***************************************************************************)
(* Bounds of the model.                                                    *)
(***************************************************************************)
MaxLen == 3
MaxOrder == 2
MaxCalls == 2
MaxBeta == 3

\* The symbols a caller feeds: a letter and the space.
Chars == {"a", " "}
\* G::default() of the sliding window's initial content ('\0' for char).
DefaultG == "NUL"

RECURSIVE SeqsUpTo(_, _)
SeqsUpTo(S, n) ==
    IF n = 0 THEN {<<>>}
    ELSE LET shorter == SeqsUpTo(S, n - 1)
         IN shorter \cup {Append(s, x) : s \in {t \in shorter : Len(t) = n - 1}, x \in S}

Inputs == SeqsUpTo(Chars, MaxLen)

\* The betas a caller scores with: 0, 1/2, 1, ..., MaxBeta (as numerators over 2).
Betas == 0 .. 2 * MaxBeta

\* The texts of test_chrf3's first case, and two short ones.
TestTexts ==
    { <<>>,
      <<"a", "b", "c">>,
      <<"a", "o", "e", "u", "3", "3">>,
      <<"a", "x", "e", "u", "3", "3">>,
      <<"a", " ", "b", "c">> }

(***************************************************************************)
(* u32 counts.  TLC's integers are 32-bit signed, so a u32 is kept as two  *)
(* 16-bit halves <<high, low>>; the arithmetic below is arithmetic modulo  *)
(* 2^32 with the overflow reported beside the wrapped result.              *)
(***************************************************************************)
Half == 2 ^ 16
U32 == (0 .. Half - 1) \X (0 .. Half - 1)
U32Zero == <<0, 0>>
U32One == <<0, 1>>
U32Max == <<Half - 1, Half - 1>>

U32Add(a, b) ==
    LET lo == a[2] + b[2]
        hi == a[1] + b[1] + (IF lo >= Half THEN 1 ELSE 0)
    IN [val |-> <<hi % Half, lo % Half>>, overflow |-> hi >= Half]

U32Less(a, b) == a[1] < b[1] \/ (a[1] = b[1] /\ a[2] < b[2])

\* core::cmp::min
U32Min(a, b) == IF U32Less(b, a) THEN b ELSE a

(***************************************************************************)
(* The ladder.                                                             *)
(***************************************************************************)
EmptyCounter == [g \in {} |-> U32Zero]

\* $name::default(): every HashMap of the chain empty.
Default(width) == [k \in 1 .. width |-> EmptyCounter]

Width(self) == Len(self)

\* HashMap::get, with the absent key read as 0
Get(counter, ngram) == IF ngram \in DOMAIN counter THEN counter[ngram] ELSE U32Zero

Put(counter, ngram, v) ==
    [g \in DOMAIN counter \cup {ngram} |-> IF g = ngram THEN v ELSE counter[g]]

\* _feed_impl without its `count >= $width` test: the window's padding is counted.
RECURSIVE feed_impl_uncounted(_, _, _, _, _)
feed_impl_uncounted(self, width, count, buffer, checked) ==
    IF width = 0 THEN [ladder |-> self, panicked |-> FALSE]
    ELSE LET ngram == SubSeq(buffer, Len(buffer) - width + 1, Len(buffer))
             sum == U32Add(Get(self[width], ngram), U32One)
         IN feed_impl_uncounted([self EXCEPT ![width] = Put(self[width], ngram, sum.val)],
                                width - 1, count, buffer, checked)

(***************************************************************************)
(* _feed_impl of the node of width `width` (0 is N0), and below it the     *)
(* nodes of smaller width.  `checked` is the build's overflow-checks       *)
(* setting: with it `+= 1` panics on overflow, without it the count wraps. *)
(***************************************************************************)
RECURSIVE feed_impl(_, _, _, _, _)
feed_impl(self, width, count, buffer, checked) ==
    IF width = 0 THEN [ladder |-> self, panicked |-> FALSE]
    ELSE IF Len(buffer) < width THEN [ladder |-> self, panicked |-> TRUE]
    ELSE IF count >= width
    THEN LET ngram == SubSeq(buffer, Len(buffer) - width + 1, Len(buffer))
             sum == U32Add(Get(self[width], ngram), U32One)
         IN IF sum.overflow /\ checked
            THEN [ladder |-> self, panicked |-> TRUE]
            ELSE feed_impl([self EXCEPT ![width] = Put(self[width], ngram, sum.val)],
                           width - 1, count, buffer, checked)
    ELSE feed_impl(self, width - 1, count, buffer, checked)

\* The body of feed_from's loop from the i-th item on.
RECURSIVE feed_loop(_, _, _, _, _, _)
feed_loop(self, iter, i, ngram, count, checked) ==
    IF i > Len(iter) THEN [ladder |-> self, panicked |-> FALSE]
    ELSE LET w == Width(self)
             shifted == [n \in 1 .. w |-> IF n < w THEN ngram[n + 1] ELSE iter[i]]
             fed == feed_impl(self, w, count + 1, shifted, checked)
         IN IF fed.panicked THEN fed
            ELSE feed_loop(fed.ladder, iter, i + 1, shifted, count + 1, checked)

\* feed_from that starts from cleared counters.
feed_from_resetting(self, iter, checked) ==
    feed_loop(Default(Width(self)), iter, 1, [n \in 1 .. Width(self) |-> DefaultG], 0, checked)

feed_from(self, iter, checked) ==
    feed_loop(self, iter, 1, [n \in 1 .. Width(self) |-> DefaultG], 0, checked)

\* A filter that keeps every character.
IsKept_all(ch) == TRUE

\* text.chars().filter(|&ch| ch != ' ')
IsKept(ch) == ch # " "

NotSpace(text) == SelectSeq(text, IsKept)

feed(self, text, checked) == feed_from(self, NotSpace(text), checked)

\* From<&str>
From(width, text, checked) == feed(Default(width), text, checked)

\* clear without `self.next.clear()`.
clear_top(self, width) == [self EXCEPT ![width] = EmptyCounter]

\* clear of the node of width `width` and of the nodes below it.
RECURSIVE clear(_, _)
clear(self, width) ==
    IF width = 0 THEN self
    ELSE clear([self EXCEPT ![width] = EmptyCounter], width - 1)

(***************************************************************************)
(* f64 values.  The scorer mixes ratios of small integers with the literal *)
(* 1e-16, whose denominator does not fit TLC's integers, so a value is a   *)
(* quotient n/d of two polynomials in e = 1e-16 with integer coefficients  *)
(* (<<c0, c1, ...>> is c0 + c1*e + ...), computed exactly.  A comparison   *)
(* is decided by the lowest power of e that differs, which is the order of *)
(* the values as long as the coefficients stay far below 1e16, as they do  *)
(* for the counts of this model.  d = <<>> is a division by zero (inf or   *)
(* NaN).  Rounding is not modelled.                                        *)
(***************************************************************************)
Coef(p, i) == IF i \in 1 .. Len(p) THEN p[i] ELSE 0

RECURSIVE PolyTrim(_)
PolyTrim(p) ==
    IF p = <<>> \/ p[Len(p)] # 0 THEN p ELSE PolyTrim(SubSeq(p, 1, Len(p) - 1))

PolyAdd(p, q) ==
    PolyTrim([i \in 1 .. (IF Len(p) > Len(q) THEN Len(p) ELSE Len(q)) |-> Coef(p, i) + Coef(q, i)])

PolyNeg(p) == [i \in 1 .. Len(p) |-> 0 - p[i]]

RECURSIVE Conv(_, _, _, _)
Conv(p, q, k, i) ==
    IF i > Len(p) THEN 0 ELSE p[i] * Coef(q, k - i + 1) + Conv(p, q, k, i + 1)

PolyMul(p, q) ==
    IF p = <<>> \/ q = <<>> THEN <<>>
    ELSE PolyTrim([k \in 1 .. Len(p) + Len(q) - 1 |-> Conv(p, q, k, 1)])

\* The number of low-order zero coefficients of p.
RECURSIVE Low(_)
Low(p) == IF p = <<>> \/ p[1] # 0 THEN 0 ELSE 1 + Low(Tail(p))

Abs(x) == IF x < 0 THEN 0 - x ELSE x

\* The sign of p at a small positive e.
PolySign(p) ==
    IF p = <<>> THEN 0 ELSE IF p[Low(p) + 1] < 0 THEN 0 - 1 ELSE 1

RECURSIVE Gcd(_, _)
Gcd(a, b) == IF b = 0 THEN a ELSE Gcd(b, a % b)

RECURSIVE PolyGcd(_)
PolyGcd(p) == IF p = <<>> THEN 0 ELSE Gcd(Abs(Head(p)), PolyGcd(Tail(p)))

\* n/d in lowest terms (powers of e and integer factors), d positive.
Quot(n, d) ==
    IF d = <<>> THEN [n |-> IF n = <<>> THEN <<>> ELSE <<PolySign(n)>>, d |-> <<>>]
    ELSE IF n = <<>> THEN [n |-> <<>>, d |-> <<1>>]
    ELSE LET low == IF Low(n) < Low(d) THEN Low(n) ELSE Low(d)
             g == Gcd(PolyGcd(n), PolyGcd(d))
             s == PolySign(d)
         IN [n |-> [i \in 1 .. Len(n) - low |-> (s * n[i + low]) \div g],
             d |-> [i \in 1 .. Len(d) - low |-> (s * d[i + low]) \div g]]

\* p with every coefficient divided by g (which divides them all).
PolyOver(p, g) == [i \in 1 .. Len(p) |-> p[i] \div g]

\* The greatest integer dividing every coefficient of p and of q (1 for none).
Common(p, q) == LET g == Gcd(PolyGcd(p), PolyGcd(q)) IN IF g = 0 THEN 1 ELSE g

F64Int(i) == Quot(IF i = 0 THEN <<>> ELSE <<i>>, <<1>>)

\* The sums and products below cancel common integer factors before they
\* multiply, which keeps the coefficients within TLC's integers.
F64Add(x, y) ==
    LET g == Common(x.d, y.d)
        xd == PolyOver(x.d, g)
        yd == PolyOver(y.d, g)
    IN Quot(PolyAdd(PolyMul(x.n, yd), PolyMul(y.n, xd)), PolyMul(x.d, yd))

F64Mul(x, y) ==
    LET g == Common(x.n, y.d)
        h == Common(y.n, x.d)
    IN Quot(PolyMul(PolyOver(x.n, g), PolyOver(y.n, h)),
            PolyMul(PolyOver(x.d, h), PolyOver(y.d, g)))

F64Div(x, y) == F64Mul(x, [n |-> y.d, d |-> y.n])

IsFinite(x) == x.d # <<>>

\* The sign of x - y.
Compare(x, y) ==
    LET g == Common(x.d, y.d)
    IN PolySign(PolyAdd(PolyMul(x.n, PolyOver(y.d, g)),
                        PolyNeg(PolyMul(y.n, PolyOver(x.d, g)))))

F64Less(x, y) == IsFinite(x) /\ IsFinite(y) /\ Compare(x, y) < 0
F64Eq(x, y) == IsFinite(x) /\ IsFinite(y) /\ Compare(x, y) = 0

\* The literal 1e-16.
Epsilon == [n |-> <<0, 1>>, d |-> <<1>>]

\* `as f64` of a u32
AsF64(u) == F64Int(u[1] * Half + u[2])

(***************************************************************************)
(* The scorer.                                                             *)
(***************************************************************************)
\* for &count_tl in tl.ngrams.values() { total_tl += count_tl }
RECURSIVE SumValues(_, _)
SumValues(counter, keys) ==
    IF keys = {} THEN [val |-> U32Zero, overflow |-> FALSE]
    ELSE LET g == CHOOSE h \in keys : TRUE
             rest == SumValues(counter, keys \ {g})
             sum == U32Add(rest.val, counter[g])
         IN [val |-> sum.val, overflow |-> rest.overflow \/ sum.overflow]

\* A match counted once whatever the counts, and a match counted at the
\* reference's count whatever the candidate's.
Clipped_presence(count_ref, count_tl) == U32One
Clipped_reference(count_ref, count_tl) == count_ref

\* The clipped count one n-gram of the reference adds to `matching`.
Clipped(count_ref, count_tl) == U32Min(count_ref, count_tl)

\* for (ngram, &count_ref) in &refs.ngrams { if let Some(..) = tl.ngrams.get(ngram) { matching += min } }
RECURSIVE SumMatching(_, _, _)
SumMatching(tlc, refc, keys) ==
    IF keys = {} THEN [val |-> U32Zero, overflow |-> FALSE]
    ELSE LET g == CHOOSE h \in keys : TRUE
             rest == SumMatching(tlc, refc, keys \ {g})
             sum == IF g \in DOMAIN tlc
                    THEN U32Add(rest.val, Clipped(refc[g], tlc[g]))
                    ELSE [val |-> rest.val, overflow |-> FALSE]
         IN [val |-> sum.val, overflow |-> rest.overflow \/ sum.overflow]

total_tl(tl, width) == SumValues(tl[width], DOMAIN tl[width])
total_ref(refs, width) == SumValues(refs[width], DOMAIN refs[width])
matching(tl, refs, width) == SumMatching(tl[width], refs[width], DOMAIN refs[width])

chr_tl(m, total) == IF total # U32Zero THEN F64Div(AsF64(m), AsF64(total)) ELSE Epsilon

chr_ref(m, total) == IF total # U32Zero THEN F64Div(AsF64(m), AsF64(total)) ELSE Epsilon

\* The denominator without its clamp.
denominator_unclamped(beta2, p, r) == F64Add(F64Mul(beta2, p), r)

denominator(beta2, p, r) ==
    LET sum == F64Add(F64Mul(beta2, p), r)
    IN IF F64Less(sum, Epsilon) THEN Epsilon ELSE sum

\* `score` of the node of width `width`, from beta and the two counters.
score(beta, tl, refs, width) ==
    LET m == matching(tl, refs, width).val
        p == chr_tl(m, total_tl(tl, width).val)
        r == chr_ref(m, total_ref(refs, width).val)
        beta2 == F64Mul(beta, beta)
        numerator == F64Mul(F64Add(F64Int(1), beta2), F64Mul(p, r))
    IN F64Div(numerator, denominator(beta2, p, r))

\* _chrf_impl counting only the orders at which both ladders hold n-grams.
RECURSIVE chrf_impl_effective(_, _, _, _)
chrf_impl_effective(beta, tl, refs, width) ==
    IF width = 0 THEN [sum |-> F64Int(0), count |-> 0]
    ELSE LET next == chrf_impl_effective(beta, tl, refs, width - 1)
         IN IF tl[width] = EmptyCounter \/ refs[width] = EmptyCounter
            THEN next
            ELSE [sum |-> F64Add(score(beta, tl, refs, width), next.sum),
                  count |-> next.count + 1]

\* _chrf_impl of the node of width `width` (0 is N0): (sum, count).
RECURSIVE chrf_impl(_, _, _, _)
chrf_impl(beta, tl, refs, width) ==
    IF width = 0 THEN [sum |-> F64Int(0), count |-> 0]
    ELSE LET next == chrf_impl(beta, tl, refs, width - 1)
         IN [sum |-> F64Add(score(beta, tl, refs, width), next.sum),
             count |-> next.count + 1]

\* Whether one of _chrf_impl's u32 sums overflows, at this width or below.
RECURSIVE SumOverflows(_, _, _)
SumOverflows(tl, refs, width) ==
    /\ width > 0
    /\ \/ total_tl(tl, width).overflow
       \/ total_ref(refs, width).overflow
       \/ matching(tl, refs, width).overflow
       \/ SumOverflows(tl, refs, width - 1)

chrf(beta, translation, reference) ==
    LET r == chrf_impl(beta, translation, reference, Width(translation))
    IN F64Div(r.sum, F64Int(r.count))

chrf3(translation, reference) ==
    F64Mul(chrf(F64Int(3), translation, reference), F64Int(100))

(***************************************************************************)
(* State.                                                                  *)
(*   tl, refs - the two ladders a caller holds (the names _chrf_impl gives *)
(*              the candidate and the reference); calls that change a      *)
(*              ladder are made on tl                                      *)
(*   panicked - a call has panicked (the run is over)                      *)
(*   last     - the call made last: its name, its argument (the symbols or *)
(*              the text, or twice the beta) and the score it returned     *)
(*   prev     - the value tl had before that call                          *)
(*   calls    - the number of calls made on tl so far                      *)
(***************************************************************************)
VARIABLES tl, refs, panicked, last, prev, calls

vars == <<tl, refs, panicked, last, prev, calls>>

W == Width(tl)

NoCall == [op |-> "none", arg |-> <<>>, beta2x |-> 0, ret |-> F64Int(0)]

Rest ==
    /\ panicked = FALSE
    /\ last = NoCall
    /\ prev = tl
    /\ calls = 0

\* Two ladders of one type, just constructed.
Init ==
    /\ \E width \in 1 .. MaxOrder : tl = Default(width) /\ refs = Default(width)
    /\ Rest

\* `outs` holds what the call does under either setting of overflow-checks.
Called(op, arg, outs) ==
    \E out \in outs :
    /\ tl' = out.ladder
    /\ panicked' = out.panicked
    /\ last' = [NoCall EXCEPT !.op = op, !.arg = arg]
    /\ prev' = tl
    /\ calls' = calls + 1
    /\ UNCHANGED refs

CanCall == ~panicked /\ calls < MaxCalls

FeedFrom(iter) ==
    /\ CanCall
    /\ Called("feed_from", iter, {feed_from(tl, iter, checked) : checked \in BOOLEAN})

Feed(text) ==
    /\ CanCall
    /\ Called("feed", text, {feed(tl, text, checked) : checked \in BOOLEAN})

\* tl = text.into()
FromStr(text) ==
    /\ CanCall
    /\ Called("from", text, {From(W, text, checked) : checked \in BOOLEAN})

Clear ==
    /\ CanCall
    /\ Called("clear", <<>>, {[ladder |-> clear(tl, W), panicked |-> FALSE]})

Next ==
    \/ \E iter \in Inputs : FeedFrom(iter)
    \/ \E text \in Inputs : Feed(text)
    \/ \E text \in Inputs : FromStr(text)
    \/ Clear

Spec == Init /\ [][Next]_vars

(***************************************************************************)
(* The scorer's specification: two ladders of one type, each constructed   *)
(* and fed one sequence of symbols, or, at the order of chrf3, built from  *)
(* a test text, and scored once by chrf or chrf3, as test_chrf3 does.       *)
(***************************************************************************)
\* The N6 of chrf3's signature.
Chrf3Order == 6

Built(width, iter) == feed_from(Default(width), iter, FALSE).ladder

InitScore ==
    /\ \/ \E width \in 1 .. MaxOrder, a \in Inputs, b \in Inputs :
             tl = Built(width, a) /\ refs = Built(width, b)
       \/ \E a \in TestTexts, b \in TestTexts :
             tl = From(Chrf3Order, a, FALSE).ladder /\ refs = From(Chrf3Order, b, FALSE).ladder
    /\ Rest

Scored(op, beta2x, out) ==
    /\ panicked' \in {checked /\ SumOverflows(tl, refs, W) : checked \in BOOLEAN}
    /\ last' = [NoCall EXCEPT !.op = op, !.beta2x = beta2x, !.ret = out]
    /\ prev' = tl
    /\ UNCHANGED <<tl, refs, calls>>

Beta(beta2x) == Quot(IF beta2x = 0 THEN <<>> ELSE <<beta2x>>, <<2>>)

Chrf(beta2x) ==
    /\ ~panicked /\ last = NoCall
    /\ Scored("chrf", beta2x, chrf(Beta(beta2x), tl, refs))

Chrf3 ==
    /\ ~panicked /\ last = NoCall
    /\ W = Chrf3Order
    /\ Scored("chrf3", 6, chrf3(tl, refs))

NextScore ==
    \/ \E beta2x \in Betas : Chrf(beta2x)
    \/ Chrf3

SpecScore == InitScore /\ [][NextScore]_vars

(***************************************************************************)
(* The ladder after 2^32 - 1 copies of one symbol were fed to it: the      *)
(* order-k counter holds the one key a^k with the count 2^32 - k.          *)
(***************************************************************************)
Saturated(width) ==
    [k \in 1 .. width |-> [g \in {[n \in 1 .. k |-> "a"]} |-> <<Half - 1, Half - k>>]]

InitOverflow ==
    /\ \E width \in 1 .. MaxOrder : tl = Saturated(width) /\ refs = Default(width)
    /\ Rest

SpecOverflow == InitOverflow /\ [][Next]_vars

(***************************************************************************)
(* What the claims speak of, stated without the code's loops: counts of    *)
(* occurrences by position, and sums over sets.                            *)
(***************************************************************************)
ToInt(u) == u[1] * Half + u[2]

Count(counter, g) == IF g \in DOMAIN counter THEN ToInt(counter[g]) ELSE 0

\* The k-grams of s, and the number of positions of s at which g stands.
Grams(s, k) == {SubSeq(s, i, i + k - 1) : i \in 1 .. Len(s) - k + 1}
Occ(s, g) == Cardinality({i \in 1 .. Len(s) - Len(g) + 1 : SubSeq(s, i, i + Len(g) - 1) = g})

\* The number of k-grams of s, by position.
Positions(s, k) == Cardinality(1 .. Len(s) - k + 1)

Symbols(g) == {g[i] : i \in 1 .. Len(g)}

Max0(x) == IF x < 0 THEN 0 ELSE x

RECURSIVE Total(_, _)
Total(counter, keys) ==
    IF keys = {} THEN 0
    ELSE LET g == CHOOSE h \in keys : TRUE
         IN ToInt(counter[g]) + Total(counter, keys \ {g})

TotalOf(counter) == Total(counter, DOMAIN counter)

RECURSIVE Overlap(_, _, _)
Overlap(a, b, keys) ==
    IF keys = {} THEN 0
    ELSE LET g == CHOOSE h \in keys : TRUE
             m == IF Count(a, g) < Count(b, g) THEN Count(a, g) ELSE Count(b, g)
         IN m + Overlap(a, b, keys \ {g})

\* The clipped overlap of two counters, over the keys of the second.
OverlapOf(a, b) == Overlap(a, b, DOMAIN b)

\* A text with its spaces taken out.
RECURSIVE WithoutSpaces(_)
WithoutSpaces(text) ==
    IF text = <<>> THEN <<>>
    ELSE IF Head(text) = " " THEN WithoutSpaces(Tail(text))
    ELSE <<Head(text)>> \o WithoutSpaces(Tail(text))

\* A k-gram of a \o b that starts in a and ends in b.
Crosses(a, b, k) ==
    \E i \in 1 .. Len(a) : i + k - 1 > Len(a) /\ i + k - 1 <= Len(a) + Len(b)

F64Leq(x, y) == F64Less(x, y) \/ F64Eq(x, y)

\* The F-beta value of one order from its three sums.
FBeta(beta, m, tt, tr) ==
    LET p == IF tt > 0 THEN F64Div(F64Int(m), F64Int(tt)) ELSE Epsilon
        r == IF tr > 0 THEN F64Div(F64Int(m), F64Int(tr)) ELSE Epsilon
        b2 == F64Mul(beta, beta)
        den == F64Add(F64Mul(b2, p), r)
    IN F64Div(F64Mul(F64Add(F64Int(1), b2), F64Mul(p, r)),
              IF F64Less(den, Epsilon) THEN Epsilon ELSE den)

RECURSIVE SumFBeta(_, _, _, _)
SumFBeta(beta, a, b, k) ==
    IF k = 0 THEN F64Int(0)
    ELSE F64Add(FBeta(beta, OverlapOf(a[k], b[k]), TotalOf(a[k]), TotalOf(b[k])),
                SumFBeta(beta, a, b, k - 1))

\* (sum over k = 1..W of score_k) / W
MeanFBeta(beta, a, b) == F64Div(SumFBeta(beta, a, b, Width(a)), F64Int(Width(a)))

Text_aoeu33 == <<"a", "o", "e", "u", "3", "3">>
Text_axeu33 == <<"a", "x", "e", "u", "3", "3">>
Text_abc == <<"a", "b", "c">>

ScoredCall == last.op \in {"chrf", "chrf3"}

\* The beta of the call made last.
CallBeta == IF last.op = "chrf3" THEN F64Int(3) ELSE Beta(last.beta2x)

(***************************************************************************)
(* C1.  One feed_from of a sequence s into an empty ladder leaves, at      *)
(* every order k, exactly the k-grams of s as keys, each with the number   *)
(* of positions at which it stands in s; the total is max(0, len(s)-k+1),  *)
(* a sequence shorter than k adds nothing at order k, and no key holds a   *)
(* padding symbol of the window.                                           *)
(***************************************************************************)
C1_FeedFromCountsEveryKGram ==
    (last.op = "feed_from" /\ prev = Default(W)) =>
        \A k \in 1 .. W :
            /\ DOMAIN tl[k] = Grams(last.arg, k)
            /\ \A g \in DOMAIN tl[k] :
                  /\ ToInt(tl[k][g]) = Occ(last.arg, g)
                  /\ DefaultG \notin Symbols(g)
            /\ TotalOf(tl[k]) = Max0(Len(last.arg) - k + 1)
            /\ (Len(last.arg) < k => tl[k] = EmptyCounter)

\* A sequence longer than the window, fed into an empty ladder of order 2.
C1_Witness ==
    /\ last.op = "feed_from" /\ prev = Default(W) /\ W = 2
    /\ last.arg = <<" ", "a", "a">>
    /\ DOMAIN tl[2] = {<<" ", "a">>, <<"a", "a">>}

(***************************************************************************)
(* C3.  After feed_from(a) and then feed_from(b), every counter is the     *)
(* pointwise sum of the counter before the two calls, the k-gram counts of *)
(* a and those of b: no k-gram across the boundary is counted, and the     *)
(* total of an order equals that of feeding a \o b exactly when no k-gram  *)
(* of a \o b crosses the split.                                            *)
(***************************************************************************)
C3_FeedAccumulates ==
    [][(last.op = "feed_from" /\ last'.op = "feed_from") =>
          LET a == last.arg
              b == last'.arg
          IN \A k \in 1 .. W :
                /\ DOMAIN tl'[k] = DOMAIN prev[k] \cup Grams(a, k) \cup Grams(b, k)
                /\ \A g \in DOMAIN tl'[k] :
                      Count(tl'[k], g) = Count(prev[k], g) + Occ(a, g) + Occ(b, g)
                /\ (TotalOf(tl'[k]) = TotalOf(prev[k]) + Positions(a \o b, k)) <=> ~Crosses(a, b, k)]_vars

\* Two feed_from calls in a row (only feed_from leaves a key with a space),
\* with the bigram "aa" of the joined sequence absent.
C3_Witness ==
    /\ last.op = "feed_from" /\ last.arg = <<"a">> /\ calls = 2 /\ W = 2
    /\ prev = Built(2, <<" ", "a">>)
    /\ <<"a", "a">> \notin DOMAIN tl[2]
    /\ tl[1][<<"a">>] = <<0, 2>>

(***************************************************************************)
(* C4.  After clear, whatever came before, every counter of the ladder is  *)
(* empty and every total is 0: the ladder is the freshly defaulted one.    *)
(***************************************************************************)
C4_ClearEmptiesEveryOrder ==
    last.op = "clear" =>
        /\ tl = Default(W)
        /\ \A k \in 1 .. W : DOMAIN tl[k] = {} /\ total_tl(tl, k).val = U32Zero

\* clear of a ladder that held bigrams.
C4_Witness == last.op = "clear" /\ W = 2 /\ prev[2] # EmptyCounter

(***************************************************************************)
(* C8.  feed(text) and From(text) do what feed_from does on the text with  *)
(* every space taken out: the counts grow by the occurrences in the text   *)
(* without its spaces (so k-grams form across a removed space), no key     *)
(* that appears holds a space, and nothing else is filtered.               *)
(***************************************************************************)
C8_TextIsFedWithoutSpaces ==
    last.op \in {"feed", "from"} =>
        LET base == IF last.op = "feed" THEN prev ELSE Default(W)
            kept == WithoutSpaces(last.arg)
        IN /\ tl = feed_from(base, kept, FALSE).ladder
           /\ \A k \in 1 .. W :
                 /\ DOMAIN tl[k] = DOMAIN base[k] \cup Grams(kept, k)
                 /\ \A g \in DOMAIN tl[k] :
                       /\ Count(tl[k], g) = Count(base[k], g) + Occ(kept, g)
                       /\ (g \notin DOMAIN base[k] => " " \notin Symbols(g))

\* The bigram "aa" of the text "a a", formed across its space.
C8_Witness ==
    /\ last.op = "feed" /\ last.arg = <<"a", " ", "a">> /\ W = 2
    /\ prev = Default(2)
    /\ DOMAIN tl[2] = {<<"a", "a">>}

(***************************************************************************)
(* C9.  In every state each key of the order-k counter has length k and    *)
(* each stored count is strictly positive: the increment never wraps a     *)
(* count around to 0.                                                      *)
(***************************************************************************)
C9_CountsStayPositive ==
    \A k \in 1 .. W : \A g \in DOMAIN tl[k] : Len(g) = k /\ tl[k][g] # U32Zero

(***************************************************************************)
(* C2.  chrf(beta, tl, refs) is the mean over the W orders of the F-beta   *)
(* value of each order's clipped overlap and totals, the divisor being W   *)
(* also when orders are empty; chrf3 is that with beta 3 at order 6, times *)
(* 100, and gives 100 * (5/6 + 3/5 + 1/2 + 1/3 + 0 + 0) / 6 = 37.7778      *)
(* within 0.0001 for "aoeu33" against "axeu33".                            *)
(***************************************************************************)
C2_ChrfIsMeanOfOrderScores ==
    /\ last.op = "chrf" => F64Eq(last.ret, MeanFBeta(Beta(last.beta2x), tl, refs))
    /\ last.op = "chrf3" =>
          /\ W = Chrf3Order
          /\ F64Eq(last.ret, F64Mul(MeanFBeta(F64Int(3), tl, refs), F64Int(100)))
    /\ (/\ last.op = "chrf3"
        /\ tl = From(Chrf3Order, Text_aoeu33, FALSE).ladder
        /\ refs = From(Chrf3Order, Text_axeu33, FALSE).ladder) =>
          /\ F64Eq(last.ret, Quot(<<100 * (25 + 18 + 15 + 10)>>, <<30 * 6>>))
          /\ F64Less(Quot(<<377777>>, <<10000>>), last.ret)
          /\ F64Less(last.ret, Quot(<<377779>>, <<10000>>))

\* test_chrf3's first case.
C2_Witness ==
    /\ last.op = "chrf3"
    /\ tl = From(Chrf3Order, Text_aoeu33, FALSE).ladder
    /\ refs = From(Chrf3Order, Text_axeu33, FALSE).ladder

(***************************************************************************)
(* C5.  Two ladders holding the same non-empty content have, at every      *)
(* order with at least one k-gram, matching = total_tl = total_ref, so     *)
(* precision = recall = 1 and score_k = 1 (at the beta of the call).       *)
(***************************************************************************)
C5_SameTextScoresOnePerOrder ==
    (tl = refs /\ tl[1] # EmptyCounter) =>
        \A k \in 1 .. W :
            tl[k] # EmptyCounter =>
                LET m == matching(tl, refs, k).val
                IN /\ m = total_tl(tl, k).val
                   /\ m = total_ref(refs, k).val
                   /\ F64Eq(chr_tl(m, total_tl(tl, k).val), F64Int(1))
                   /\ F64Eq(chr_ref(m, total_ref(refs, k).val), F64Int(1))
                   /\ ScoredCall => F64Eq(score(CallBeta, tl, refs, k), F64Int(1))

\* "aaa" on both sides: the unigram a three times, the bigram aa twice.
C5_Witness ==
    /\ ScoredCall /\ W = 2
    /\ tl = Built(2, <<"a", "a", "a">>) /\ refs = tl

(***************************************************************************)
(* C6.  chrf3("abc", "abc") is 100 (within 0.0001).                        *)
(***************************************************************************)
C6_IdenticalAbcScores100 ==
    (/\ last.op = "chrf3"
     /\ tl = From(Chrf3Order, Text_abc, FALSE).ladder
     /\ refs = From(Chrf3Order, Text_abc, FALSE).ladder) =>
        /\ F64Less(Quot(<<999999>>, <<10000>>), last.ret)
        /\ F64Less(last.ret, Quot(<<1000001>>, <<10000>>))

(***************************************************************************)
(* C7.  An empty candidate, an empty reference or both are no error: the   *)
(* scorer does not panic or divide by zero, puts 1e-16 in place of the     *)
(* undefined precision or recall, keeps the denominator at 1e-16 or more   *)
(* and returns a score next to 0; chrf3("", "") is 100 * 1e-16, not 100.   *)
(***************************************************************************)
C7_EmptyInputsScoreNearZero ==
    (ScoredCall /\ (tl = Default(W) \/ refs = Default(W))) =>
        LET beta == CallBeta
        IN /\ ~panicked
           /\ IsFinite(last.ret)
           /\ F64Leq(F64Int(0), last.ret)
           /\ F64Leq(last.ret, F64Mul(F64Int(100), Epsilon))
           /\ \A k \in 1 .. W :
                 LET m == matching(tl, refs, k).val
                     p == chr_tl(m, total_tl(tl, k).val)
                     r == chr_ref(m, total_ref(refs, k).val)
                 IN /\ (tl = Default(W) => p = Epsilon)
                    /\ (refs = Default(W) => r = Epsilon)
                    /\ ~F64Less(denominator(F64Mul(beta, beta), p, r), Epsilon)
                    /\ IsFinite(score(beta, tl, refs, k))
           /\ (last.op = "chrf3" /\ tl = Default(W) /\ refs = Default(W)) =>
                 F64Eq(last.ret, F64Mul(F64Int(100), Epsilon))

\* chrf3("", "")
C7_Witness == last.op = "chrf3" /\ tl = Default(Chrf3Order) /\ refs = Default(Chrf3Order)

(***************************************************************************)
(* C10.  At every order 0 <= matching <= min(total_tl, total_ref), so a    *)
(* precision or recall with a positive total lies in [0, 1] and score_k is *)
(* at most 1 when both totals are positive (at the beta of the call);      *)
(* matching is the same with the two ladders swapped.                      *)
(***************************************************************************)
C10_MatchingIsBoundedAndSymmetric ==
    \A k \in 1 .. W :
        LET m == matching(tl, refs, k).val
            tt == total_tl(tl, k).val
            tr == total_ref(refs, k).val
            p == chr_tl(m, tt)
            r == chr_ref(m, tr)
        IN /\ ~U32Less(tt, m) /\ ~U32Less(tr, m)
           /\ tt # U32Zero => (F64Leq(F64Int(0), p) /\ F64Leq(p, F64Int(1)))
           /\ tr # U32Zero => (F64Leq(F64Int(0), r) /\ F64Leq(r, F64Int(1)))
           /\ (ScoredCall /\ tt # U32Zero /\ tr # U32Zero) =>
                 F64Leq(score(CallBeta, tl, refs, k), F64Int(1))
           /\ m = matching(refs, tl, k).val

\* A scored pair with a clipped match whose score changes when swapped.
C10_Witness ==
    /\ last.op = "chrf" /\ W = 2
    /\ tl = Built(2, <<"a", "a", " ">>) /\ refs = Built(2, <<"a">>)
    /\ matching(tl, refs, 1).val = U32One
    /\ ~F64Eq(last.ret, chrf(Beta(last.beta2x), refs, tl))

=============================================================================
